---------------------------- MODULE Spec2Model ----------------------------
(***************************************************************************)
(* A model of the collaborative whiteboard: the socket.io relay server     *)
(* (server.js, kept here as src/unnamed/part_000) and the React client     *)
(* (src/Canvas.jsx).                                                       *)
(*                                                                         *)
(* The relay server is one variable, drawingActionsHistory, and three      *)
(* handlers per socket.  What the server emits is recorded per socket in   *)
(* inbox, in emission order.  The variables accepted and connectedAt are   *)
(* history variables: they record what was handled, and are never read by  *)
(* the modelled code.                                                      *)
(***************************************************************************)
EXTENDS Integers, Sequences, FiniteSets, TLC

\* ------------------------------------------------------------------ bounds

\* Sockets that connect during a run (socket ids 1..MaxSessions).
MaxSessions == 3

\* Messages ("drawing-action" or "clear-canvas") the server handles in a run.
MaxSubmit == 2

\* Events (input events and inbound messages) one client handles in a run.
MaxEvents == 3

\* --------------------------------------------------------------- constants

MAX_HISTORY_LENGTH == 200

\* ------------------------------------------------------------------ values

SessionIds == 1..MaxSessions

\* The socket whose submissions filled the log before a run that starts from
\* a filled log; it has disconnected and is not one of SessionIds.
EarlierSession == (CHOOSE s \in SessionIds : \A t \in SessionIds : s <= t) - 1

Min(a, b) == IF a < b THEN a ELSE b

\* The action the server builds for a "clear-canvas" message.
clearAction == [type |-> "clear"]

\* Payloads of "drawing-action" messages.  The server reads no field of the
\* payload, so a few values stand for all: a well-formed action and a malformed
\* one (a rect with no geometry).
Payloads ==
  { [type |-> "start", x |-> 10, y |-> 10, color |-> "#000000",
     lineWidth |-> 5, tool |-> "pen"],
    [type |-> "rect"] }

\* The i-th action of a log filled by EarlierSession: all different, so that
\* order and eviction are visible.
FillAction(i) ==
  [type |-> "draw", x |-> i, y |-> i, color |-> "#000000",
   lineWidth |-> 5, tool |-> "pen"]

\* ------------------------------------------------------- the client's values

\* The clients of the model; the client specification runs the first.
Clients == {"A", "B"}
SoloClients == {"A"}

\* The tools of the toolbar (Canvas.jsx:454-458).
Tools == {"pen", "eraser", "text", "rectangle", "circle"}

\* The settings of the toolbar: the initial value of each and one other.
Colors == {"#000000", "#ff0000"}
LineWidths == {5, 20}
EraserWidths == {10, 30}

Point(x, y) == [x |-> x, y |-> y]

\* Where the pointer is at an input event: two points at distance 5 from each
\* other, and at distances 5 and 10 from the initial startPos (0, 0), so that
\* every radius the client computes is a whole number.
MousePoints == {Point(3, 4), Point(6, 8)}

\* What prompt('Enter text:') returns: "" stands for a cancelled or empty
\* prompt (both falsy).
PromptAnswers == {"", "hi"}

\* JavaScript null as a payload: a value with none of an action's fields.
Null == [isNull |-> TRUE]

\* Inbound "drawing-action" payloads of the client specification: a
\* well-formed rect, a clear, a circle whose negative radius makes arc()
\* throw, the same sent with the eraser tool, and null.
RemoteActions ==
  { [type |-> "rect", x |-> 3, y |-> 4, width |-> 3, height |-> 4,
     color |-> "#ff0000", lineWidth |-> 5, tool |-> "rectangle"],
    [type |-> "clear"],
    [type |-> "circle", x |-> 3, y |-> 4, radius |-> -1,
     color |-> "#ff0000", lineWidth |-> 5, tool |-> "circle"],
    [type |-> "circle", x |-> 3, y |-> 4, radius |-> -1,
     lineWidth |-> 10, tool |-> "eraser"],
    Null }

\* Inbound "initial-drawing-history" payloads of the client specification.
ReplayLists ==
  { << [type |-> "rect", x |-> 3, y |-> 4, width |-> 3, height |-> 4,
        color |-> "#ff0000", lineWidth |-> 5, tool |-> "rectangle"],
       [type |-> "text", text |-> "yo", x |-> 6, y |-> 8, color |-> "#ff0000",
        lineWidth |-> 5, font |-> "16px Arial", tool |-> "text"] >>,
    << [type |-> "clear"],
       [type |-> "circle", x |-> 3, y |-> 4, radius |-> -1,
        color |-> "#ff0000", lineWidth |-> 5, tool |-> "circle"],
       [type |-> "clear"] >> }

VARIABLES
  client,                 \* client -> its state, a record (see InitClientState)
  drawingActionsHistory,  \* the server's log
  sockets,                \* socket id -> "fresh" | "open" | "closed"
  inbox,                  \* socket id -> what the server emitted to it
  accepted,               \* history: every message handled, in handling order
  connectedAt,            \* history: socket id -> Len(accepted) at its connect
  handled                 \* messages handled in this run

serverVars ==
  <<drawingActionsHistory, sockets, inbox, accepted, connectedAt, handled>>

vars == <<client, serverVars>>

OpenSockets == {s \in SessionIds : sockets[s] = "open"}

\* ------------------------------------------------------------- the server

\* Variants of PushHistory with a slip in it: the capacity test off by one,
\* the newest entry dropped instead of the oldest, the entry put at the head.
PushHistoryOffByOne(log, data) ==
  LET pushed == Append(log, data)
  IN  IF Len(pushed) >= MAX_HISTORY_LENGTH THEN Tail(pushed) ELSE pushed

PushHistoryPop(log, data) ==
  LET pushed == Append(log, data)
  IN  IF Len(pushed) > MAX_HISTORY_LENGTH
        THEN SubSeq(pushed, 1, Len(pushed) - 1) ELSE pushed

PushHistoryUnshift(log, data) ==
  LET pushed == <<data>> \o log
  IN  IF Len(pushed) > MAX_HISTORY_LENGTH THEN Tail(pushed) ELSE pushed

\* drawingActionsHistory.push(data); if (length > MAX) shift()
PushHistory(log, data) ==
  LET pushed == Append(log, data)
  IN  IF Len(pushed) > MAX_HISTORY_LENGTH THEN Tail(pushed) ELSE pushed

\* io.emit in place of socket.broadcast.emit: the sender included.
BroadcastTargetsAll(s) == OpenSockets

\* socket.broadcast.emit: every open socket but the sender
BroadcastTargets(s) == OpenSockets \ {s}

\* The emit without its length test.
InitialHistoryEmitAlways(log) ==
  << [event |-> "initial-drawing-history", actions |-> log, n |-> Len(accepted)] >>

\* A replay of the log as it was before its newest entry.
InitialHistoryEmitStale(log) ==
  IF Len(log) > 0
    THEN << [event |-> "initial-drawing-history",
             actions |-> SubSeq(log, 1, Len(log) - 1), n |-> Len(accepted)] >>
    ELSE << >>

\* if (drawingActionsHistory.length > 0) socket.emit("initial-drawing-history", ...)
InitialHistoryEmit(log) ==
  IF Len(log) > 0
    THEN << [event |-> "initial-drawing-history", actions |-> log,
             n |-> Len(accepted)] >>
    ELSE << >>

\* A relay that keeps only the fields it knows.
RelayEmitTypeOnly(data, n) ==
  [event |-> "drawing-action", data |-> [type |-> data.type], n |-> n]

\* The "drawing-action" message the server emits for the n-th handled message.
\* The field n is a history field naming the submission; the wire carries data.
RelayEmit(data, n) == [event |-> "drawing-action", data |-> data, n |-> n]

\* Store and relay, the body the two message handlers share; event names the
\* message handled, for the history variable only.
StoreAndRelay(s, data, event) ==
  /\ drawingActionsHistory' = PushHistory(drawingActionsHistory, data)
  /\ inbox' = [t \in SessionIds |->
                 IF t \in BroadcastTargets(s)
                   THEN Append(inbox[t], RelayEmit(data, Len(accepted) + 1))
                   ELSE inbox[t]]
  /\ accepted' = Append(accepted,
                        [data |-> data, from |-> s, event |-> event])
  /\ handled' = handled + 1
  /\ UNCHANGED <<sockets, connectedAt>>

\* io.on("connection"): socket ids are fresh, taken here in increasing order.
Connection(s) ==
  /\ sockets[s] = "fresh"
  /\ \A t \in SessionIds : t < s => sockets[t] # "fresh"
  /\ sockets' = [sockets EXCEPT ![s] = "open"]
  /\ inbox' = [inbox EXCEPT ![s] = @ \o InitialHistoryEmit(drawingActionsHistory)]
  /\ connectedAt' = [connectedAt EXCEPT ![s] = Len(accepted)]
  /\ UNCHANGED <<drawingActionsHistory, accepted, handled>>

\* socket.on("drawing-action")
OnDrawingAction(s, data) ==
  /\ sockets[s] = "open"
  /\ StoreAndRelay(s, data, "drawing-action")

\* The handler with the reset of line 46 enabled:
\* drawingActionsHistory = [clearAction].
OnClearCanvasReset(s) ==
  /\ sockets[s] = "open"
  /\ drawingActionsHistory' = <<clearAction>>
  /\ inbox' = [t \in SessionIds |->
                 IF t \in BroadcastTargets(s)
                   THEN Append(inbox[t], RelayEmit(clearAction, Len(accepted) + 1))
                   ELSE inbox[t]]
  /\ accepted' = Append(accepted,
                        [data |-> clearAction, from |-> s, event |-> "clear-canvas"])
  /\ handled' = handled + 1
  /\ UNCHANGED <<sockets, connectedAt>>

\* socket.on("clear-canvas")
OnClearCanvas(s) ==
  /\ sockets[s] = "open"
  /\ StoreAndRelay(s, clearAction, "clear-canvas")

\* socket.on("disconnect"): the socket is gone, and with it the record of
\* what was emitted to it (nothing is emitted to a closed socket).
OnDisconnect(s) ==
  /\ sockets[s] = "open"
  /\ sockets' = [sockets EXCEPT ![s] = "closed"]
  /\ inbox' = [inbox EXCEPT ![s] = << >>]
  /\ connectedAt' = [connectedAt EXCEPT ![s] = -1]
  /\ UNCHANGED <<drawingActionsHistory, accepted, handled>>

\* ------------------------------------------------------------- the client
\*
\* A client's state is a record: the component's React state (isDrawing,
\* tool, color, lineWidth, eraserWidth, startPos, currentPos, history,
\* historyStep, previewMode), its ref isApplyingRemoteAction, and what lives
\* outside React: the canvas (canvas, a sequence of marks in paint order; ctx,
\* the 2d context's compositing mode and current path), the socket (socket
\* counts the connections made, received the messages handled on the current
\* one, outbox holds what was emitted and the server has not handled yet, in
\* the specification that runs clients and server together), the images whose load is pending (images), and the history and
\* historyStep that the saveHistory bound in the socket handlers closes over
\* (bound).  A handler is an operator from the state it starts in to the state
\* it leaves; React renders between two handlers, so a handler reads the state
\* of the render before it.  lastEvent is a history field: the handler that ran
\* last, whether a gesture was open when it started, how many times it called
\* saveHistory and what it emitted.  The context's stroke style, width and font
\* are not modelled: a mark records geometry and compositing mode only.

NoImageShape == "none"

InitClientState ==
  [ isDrawing |-> FALSE,
    tool |-> "pen",
    color |-> "#000000",
    lineWidth |-> 5,
    eraserWidth |-> 10,
    startPos |-> Point(0, 0),
    currentPos |-> Point(0, 0),
    history |-> << >>,
    historyStep |-> -1,
    previewMode |-> FALSE,
    isApplyingRemoteAction |-> FALSE,
    canvas |-> << >>,
    ctx |-> [gco |-> "source-over", path |-> << >>],
    bound |-> [history |-> << >>, historyStep |-> -1],
    mounted |-> FALSE,
    images |-> << >>,
    socket |-> 1,
    received |-> 0,
    outbox |-> << >>,
    lastEvent |-> [seq |-> 0, name |-> "init", wasDrawing |-> FALSE,
                   wasApplying |-> FALSE, redoable |-> FALSE,
                   pushes |-> 0, emits |-> << >>, posSet |-> FALSE] ]

\* The lastEvent of the handler `name` started in state st: wasDrawing,
\* wasApplying and redoable tell whether a gesture was open, the flag
\* isApplyingRemoteAction set, and a snapshot above the cursor, when it started.
Ev(st, name, pushes, emits, posSet) ==
  [seq |-> st.lastEvent.seq + 1, name |-> name, wasDrawing |-> st.isDrawing,
   wasApplying |-> st.isApplyingRemoteAction,
   redoable |-> st.historyStep < Len(st.history) - 1,
   pushes |-> pushes, emits |-> emits, posSet |-> posSet]

EmitAction(data) == [event |-> "drawing-action", data |-> data]
EmitClear == [event |-> "clear-canvas"]

\* ---- the 2d context

Has(d, f) == f \in DOMAIN d
HasAll(d, fs) == \A f \in fs : f \in DOMAIN d

\* context.moveTo / lineTo / arc / closePath on the current path, which is the
\* sequence of path commands since beginPath.  A call with a missing (NaN)
\* coordinate does nothing, and so does closePath on an empty path.
MoveTo(path, x, y) == Append(path, [cmd |-> "M", x |-> x, y |-> y])
LineTo(path, x, y) == Append(path, [cmd |-> "L", x |-> x, y |-> y])
Arc(path, x, y, r) == Append(path, [cmd |-> "A", x |-> x, y |-> y, r |-> r])
ClosePath(path) == IF path = << >> THEN path ELSE Append(path, [cmd |-> "Z"])

\* The marks that context.stroke(), fill(), strokeRect() and fillText() leave.
StrokeMark(path, gco) == [op |-> "stroke", path |-> path, gco |-> gco]
FillMark(path, gco) == [op |-> "fill", path |-> path, gco |-> gco]
RectMark(x, y, w, h, gco) ==
  [op |-> "rect", x |-> x, y |-> y, width |-> w, height |-> h, gco |-> gco]
TextMark(text, x, y, gco) ==
  [op |-> "text", text |-> text, x |-> x, y |-> y, gco |-> gco]

\* context.strokeRect(x, y, w, h) on canvas: nothing when w and h are both 0.
StrokeRect(canvas, x, y, w, h, gco) ==
  IF w = 0 /\ h = 0 THEN canvas ELSE Append(canvas, RectMark(x, y, w, h, gco))

\* context.clearRect(0, 0, width, height); context.drawImage(img, 0, 0): on
\* the blanked canvas the image shows as it is under source-over, and not at
\* all under destination-out.
ClearAndDrawImage(img, gco) == IF gco = "source-over" THEN img ELSE << >>

\* The whole root r with r * r = n (the distances of the model are whole).
Sqrt(n) == CHOOSE r \in 0..n : r * r = n

Radius(a, b) == Sqrt((b.x - a.x) * (b.x - a.x) + (b.y - a.y) * (b.y - a.y))

\* ---- applyDrawingAction (Canvas.jsx:26-80)

IsNull(data) == Has(data, "isNull")

\* data.tool === 'eraser' || (data.type === 'eraser' && data.tool !== 'pen')
UsesEraser(data) ==
  \/ (Has(data, "tool") /\ data.tool = "eraser")
  \/ (Has(data, "type") /\ data.type = "eraser"
        /\ ~(Has(data, "tool") /\ data.tool = "pen"))

\* The branch on data.type, under compositing mode gco: the canvas and path
\* it leaves, and whether it threw (arc() throws on a negative radius, after
\* beginPath).  ew is the eraserWidth the callback closes over.
ApplyByType(data, canvas, path, gco, ew) ==
  LET type == IF Has(data, "type") THEN data.type ELSE "undefined"
      xy == HasAll(data, {"x", "y"})
      same == [canvas |-> canvas, path |-> path, threw |-> FALSE]
  IN  CASE type = "start" ->
             [same EXCEPT !.path = IF xy THEN MoveTo(<< >>, data.x, data.y)
                                         ELSE << >>]
        [] type = "draw" ->
             LET p == IF xy THEN LineTo(path, data.x, data.y) ELSE path
             IN  [same EXCEPT !.path = p,
                              !.canvas = Append(canvas, StrokeMark(p, gco))]
        [] type = "stop" ->
             [same EXCEPT !.path = ClosePath(path)]
        [] type = "rect" ->
             IF HasAll(data, {"x", "y", "width", "height"})
               THEN [same EXCEPT !.canvas =
                       StrokeRect(canvas, data.x, data.y, data.width,
                                  data.height, gco)]
               ELSE same
        [] type = "circle" ->
             IF Has(data, "radius") /\ data.radius < 0
               THEN [same EXCEPT !.path = << >>, !.threw = TRUE]
               ELSE LET p == IF xy /\ Has(data, "radius")
                               THEN Arc(<< >>, data.x, data.y, data.radius)
                               ELSE << >>
                    IN  [same EXCEPT !.path = p,
                                     !.canvas = Append(canvas, StrokeMark(p, gco))]
        [] type = "text" ->
             IF xy
               THEN [same EXCEPT !.canvas =
                       Append(canvas,
                              TextMark(IF Has(data, "text") THEN data.text
                                                            ELSE "undefined",
                                       data.x, data.y, gco))]
               ELSE same
        [] type = "eraser" ->
             \* arc of diameter data.lineWidth || eraserWidth, filled; the
             \* mark keeps the diameter in r
             LET p == IF xy
                        THEN Arc(<< >>, data.x, data.y,
                                 IF Has(data, "lineWidth") /\ data.lineWidth # 0
                                   THEN data.lineWidth ELSE ew)
                        ELSE << >>
             IN  [same EXCEPT !.path = p,
                              !.canvas = Append(canvas, FillMark(p, gco))]
        [] type = "clear" ->
             [same EXCEPT !.canvas = << >>]
        [] OTHER -> same

\* applyDrawingAction(data, context) on canvas and context ctx: what it leaves
\* and whether it threw.  Reading data.color of null throws before anything
\* is touched; the compositing mode is set for an eraser action and put back
\* at the end, which a throw skips.
ApplyDrawingAction(data, canvas, ctx, ew) ==
  IF IsNull(data)
    THEN [canvas |-> canvas, ctx |-> ctx, threw |-> TRUE]
    ELSE LET gco == IF UsesEraser(data) THEN "destination-out" ELSE ctx.gco
             r == ApplyByType(data, canvas, ctx.path, gco, ew)
         IN  [canvas |-> r.canvas,
              ctx |-> [gco |-> IF r.threw THEN gco ELSE ctx.gco,
                       path |-> r.path],
              threw |-> r.threw]

\* actions.forEach(action => applyDrawingAction(action, context)): a throw
\* ends the loop.
RECURSIVE ApplyAll(_, _, _, _)
ApplyAll(actions, canvas, ctx, ew) ==
  IF actions = << >>
    THEN [canvas |-> canvas, ctx |-> ctx, threw |-> FALSE]
    ELSE LET r == ApplyDrawingAction(Head(actions), canvas, ctx, ew)
         IN  IF r.threw THEN r
                        ELSE ApplyAll(Tail(actions), r.canvas, r.ctx, ew)

\* ---- the snapshot history (Canvas.jsx:149-188)

\* array.slice(0, end), for end >= 0: the first end elements, or all of them
\* when there are fewer.
Slice(array, end) == SubSeq(array, 1, Min(end, Len(array)))

\* A saveHistory that appends to the whole sequence, without the slice.
SaveHistoryNoSlice(history, historyStep, dataURL) ==
  [history |-> Append(history, dataURL), historyStep |-> Len(history)]

\* A saveHistory that sets the cursor to newHistory.length.
SaveHistoryStepPastEnd(history, historyStep, dataURL) ==
  LET newHistory == Append(Slice(history, historyStep + 1), dataURL)
  IN  [history |-> newHistory, historyStep |-> Len(newHistory)]

\* A saveHistory that pushes onto the whole sequence and steps the cursor by
\* one, keeping the snapshots above it.
SaveHistoryKeepsRedo(history, historyStep, dataURL) ==
  [history |-> Append(history, dataURL), historyStep |-> historyStep + 1]

\* saveHistory: newHistory = history.slice(0, historyStep + 1); push(dataURL);
\* setHistory(newHistory); setHistoryStep(newHistory.length - 1).  history and
\* historyStep are those of the closure; the cursor counts from 0.
SaveHistory(history, historyStep, dataURL) ==
  LET newHistory == Append(Slice(history, historyStep + 1), dataURL)
  IN  [history |-> newHistory, historyStep |-> Len(newHistory) - 1]

\* saveHistory as an event handler of the current render calls it: on the
\* render's history, with the canvas as it is (canvas.toDataURL()).
SaveLocal(st) ==
  LET r == SaveHistory(st.history, st.historyStep, st.canvas)
  IN  [st EXCEPT !.history = r.history, !.historyStep = r.historyStep]

\* The history and historyStep seen by the saveHistory that the socket
\* handlers call: those of the render in which the socket effect last ran
\* (its dependencies are getCanvasContext and applyDrawingAction only).
SocketClosure(st) == st.bound

\* saveHistory as a socket handler calls it.
SaveFromSocket(st) ==
  LET r == SaveHistory(SocketClosure(st).history, SocketClosure(st).historyStep,
                       st.canvas)
  IN  [st EXCEPT !.history = r.history, !.historyStep = r.historyStep]

\* handleUndo
HandleUndo(st) ==
  IF st.historyStep > 0
    THEN [st EXCEPT !.historyStep = @ - 1,
                    !.lastEvent = Ev(st, "undo", 0, << >>, FALSE)]
    ELSE [st EXCEPT !.lastEvent = Ev(st, "undo", 0, << >>, FALSE)]

\* A handleRedo that draws the snapshot again as an action and submits it.
HandleRedoResubmits(st) ==
  IF st.historyStep < Len(st.history) - 1
    THEN [st EXCEPT !.historyStep = @ + 1,
                    !.lastEvent =
                      Ev(st, "redo", 0,
                         <<EmitAction([type |-> "redo",
                                       step |-> st.historyStep + 1])>>,
                         FALSE)]
    ELSE [st EXCEPT !.lastEvent = Ev(st, "redo", 0, << >>, FALSE)]

\* handleRedo
HandleRedo(st) ==
  IF st.historyStep < Len(st.history) - 1
    THEN [st EXCEPT !.historyStep = @ + 1,
                    !.lastEvent = Ev(st, "redo", 0, << >>, FALSE)]
    ELSE [st EXCEPT !.lastEvent = Ev(st, "redo", 0, << >>, FALSE)]

\* handleClear
HandleClear(st) ==
  [SaveLocal([st EXCEPT !.canvas = << >>])
     EXCEPT !.lastEvent = Ev(st, "clear", 1, <<EmitClear>>, FALSE)]

\* ---- the pointer handlers (Canvas.jsx:253-432)

CurrentLineWidth(st) == IF st.tool = "eraser" THEN st.eraserWidth ELSE st.lineWidth

\* startDrawing, with the pointer at p and prompt() answering text
StartDrawing(st, p, text) ==
  IF st.isApplyingRemoteAction
    THEN [st EXCEPT !.lastEvent = Ev(st, "mousedown", 0, << >>, FALSE)]
    ELSE
      LET s1 == [st EXCEPT !.startPos = p, !.currentPos = p]
      IN  IF st.tool = "text"
            THEN IF text # ""
                   THEN [SaveLocal([s1 EXCEPT !.canvas =
                                      Append(@, TextMark(text, p.x, p.y, st.ctx.gco))])
                           EXCEPT !.lastEvent =
                             Ev(st, "mousedown", 1,
                                <<EmitAction([type |-> "text", text |-> text,
                                              x |-> p.x, y |-> p.y,
                                              color |-> st.color,
                                              lineWidth |-> CurrentLineWidth(st),
                                              font |-> "16px Arial",
                                              tool |-> st.tool])>>,
                                TRUE)]
                   ELSE [s1 EXCEPT !.lastEvent = Ev(st, "mousedown", 0, << >>, TRUE)]
          ELSE IF st.tool \in {"pen", "eraser"}
            THEN [s1 EXCEPT
                    !.isDrawing = TRUE,
                    !.ctx = [gco |-> IF st.tool = "eraser" THEN "destination-out"
                                                            ELSE st.ctx.gco,
                             path |-> MoveTo(<< >>, p.x, p.y)],
                    !.lastEvent =
                      Ev(st, "mousedown", 0,
                         <<EmitAction([type |-> "start", x |-> p.x, y |-> p.y,
                                       color |-> st.color,
                                       lineWidth |-> CurrentLineWidth(st),
                                       tool |-> st.tool])>>,
                         TRUE)]
            ELSE [s1 EXCEPT !.isDrawing = TRUE, !.previewMode = TRUE,
                            !.lastEvent = Ev(st, "mousedown", 0, << >>, TRUE)]

\* draw, with the pointer at p
Draw(st, p) ==
  IF ~st.isDrawing \/ st.isApplyingRemoteAction
    THEN [st EXCEPT !.lastEvent = Ev(st, "mousemove", 0, << >>, FALSE)]
    ELSE
      LET gco == IF st.tool = "eraser" THEN "destination-out" ELSE "source-over"
          path == LineTo(st.ctx.path, p.x, p.y)
      IN  IF st.tool = "pen"
            THEN [st EXCEPT
                    !.currentPos = p,
                    !.ctx = [gco |-> gco, path |-> path],
                    !.canvas = Append(@, StrokeMark(path, gco)),
                    !.lastEvent =
                      Ev(st, "mousemove", 0,
                         <<EmitAction([type |-> "draw", x |-> p.x, y |-> p.y,
                                       color |-> st.color,
                                       lineWidth |-> CurrentLineWidth(st),
                                       tool |-> st.tool])>>,
                         TRUE)]
          ELSE IF st.tool = "eraser"
            THEN [st EXCEPT
                    !.currentPos = p,
                    !.ctx = [gco |-> gco, path |-> path],
                    !.canvas = Append(@, StrokeMark(path, gco)),
                    !.lastEvent =
                      Ev(st, "mousemove", 0,
                         <<EmitAction([type |-> "draw", x |-> p.x, y |-> p.y,
                                       lineWidth |-> CurrentLineWidth(st),
                                       tool |-> st.tool])>>,
                         TRUE)]
            ELSE [st EXCEPT !.currentPos = p,
                            !.ctx = [gco |-> gco, path |-> st.ctx.path],
                            !.lastEvent = Ev(st, "mousemove", 0, << >>, TRUE)]

\* stopDrawing, with the pointer at p; name is the event it handles
\* (onMouseUp or onMouseOut)
StopDrawing(st, p, name) ==
  IF st.isApplyingRemoteAction
       \/ (~st.isDrawing /\ st.tool # "rectangle" /\ st.tool # "circle")
    THEN [st EXCEPT !.lastEvent = Ev(st, name, 0, << >>, FALSE)]
    ELSE
      LET drawn ==
            CASE st.tool \in {"pen", "eraser"} ->
                   [canvas |-> st.canvas,
                    ctx |-> [gco |-> IF st.tool = "eraser" THEN "source-over"
                                                            ELSE st.ctx.gco,
                             path |-> ClosePath(st.ctx.path)],
                    emits |-> <<EmitAction([type |-> "stop", tool |-> st.tool])>>]
              [] st.tool = "rectangle" ->
                   [canvas |-> StrokeRect(st.canvas, st.startPos.x, st.startPos.y,
                                          p.x - st.startPos.x,
                                          p.y - st.startPos.y, st.ctx.gco),
                    ctx |-> st.ctx,
                    emits |-> <<EmitAction([type |-> "rect",
                                            x |-> st.startPos.x, y |-> st.startPos.y,
                                            width |-> p.x - st.startPos.x,
                                            height |-> p.y - st.startPos.y,
                                            color |-> st.color,
                                            lineWidth |-> CurrentLineWidth(st),
                                            tool |-> st.tool])>>]
              [] st.tool = "circle" ->
                   LET path == Arc(<< >>, st.startPos.x, st.startPos.y,
                                   Radius(st.startPos, p))
                   IN  [canvas |-> Append(st.canvas, StrokeMark(path, st.ctx.gco)),
                        ctx |-> [gco |-> st.ctx.gco, path |-> path],
                        emits |-> <<EmitAction([type |-> "circle",
                                                x |-> st.startPos.x,
                                                y |-> st.startPos.y,
                                                radius |-> Radius(st.startPos, p),
                                                color |-> st.color,
                                                lineWidth |-> CurrentLineWidth(st),
                                                tool |-> st.tool])>>]
              [] OTHER ->
                   [canvas |-> st.canvas, ctx |-> st.ctx, emits |-> << >>]
      IN  [SaveLocal([st EXCEPT !.canvas = drawn.canvas, !.ctx = drawn.ctx])
             EXCEPT !.previewMode = FALSE,
                    !.isDrawing = FALSE,
                    !.lastEvent = Ev(st, name, 1, drawn.emits, FALSE)]

\* ---- the toolbar (Canvas.jsx:454-470)

\* setTool
SetTool(st, t) ==
  [st EXCEPT !.tool = t, !.lastEvent = Ev(st, "setTool", 0, << >>, FALSE)]

\* The socket effect run again (Canvas.jsx:84-119): its cleanup disconnects
\* the socket, a new one is opened, and the handlers put on it close over the
\* saveHistory of the current render.
RerunSocketEffect(st) ==
  [st EXCEPT !.socket = @ + 1,
             !.received = 0,
             !.bound = [history |-> st.history, historyStep |-> st.historyStep]]

\* setColor, setLineWidth, setEraserWidth: each gives applyDrawingAction a new
\* identity, which is a dependency of the socket effect.
SetColor(st, v) ==
  [RerunSocketEffect(st) EXCEPT
     !.color = v, !.lastEvent = Ev(st, "setColor", 0, << >>, FALSE)]

SetLineWidth(st, v) ==
  [RerunSocketEffect(st) EXCEPT
     !.lineWidth = v, !.lastEvent = Ev(st, "setLineWidth", 0, << >>, FALSE)]

SetEraserWidth(st, v) ==
  [RerunSocketEffect(st) EXCEPT
     !.eraserWidth = v, !.lastEvent = Ev(st, "setEraserWidth", 0, << >>, FALSE)]

\* ---- the socket handlers (Canvas.jsx:91-114)

\* on('initial-drawing-history'): a throw inside forEach leaves the flag set
\* and skips saveHistory.
OnInitialDrawingHistory(st, actions) ==
  LET r == ApplyAll(actions, << >>, st.ctx, st.eraserWidth)
      s1 == [st EXCEPT !.canvas = r.canvas, !.ctx = r.ctx,
                       !.received = @ + 1]
  IN  IF r.threw
        THEN [s1 EXCEPT !.isApplyingRemoteAction = TRUE,
                        !.lastEvent = Ev(st, "replay-threw", 0, << >>, FALSE)]
        ELSE [SaveFromSocket(s1) EXCEPT
                !.isApplyingRemoteAction = FALSE,
                !.lastEvent = Ev(st, "replay", 1, << >>, FALSE)]

\* An on('drawing-action') that ends the gesture the user has open.
OnDrawingActionEndsGesture(st, data) ==
  IF IsNull(data)
    THEN [st EXCEPT !.received = @ + 1,
                    !.lastEvent = Ev(st, "relay-threw", 0, << >>, FALSE)]
    ELSE
      LET r == ApplyDrawingAction(data, st.canvas, st.ctx, st.eraserWidth)
          s1 == [st EXCEPT !.canvas = r.canvas, !.ctx = r.ctx,
                           !.received = @ + 1]
      IN  IF r.threw
            THEN [s1 EXCEPT !.isApplyingRemoteAction = TRUE,
                            !.lastEvent = Ev(st, "relay-threw", 0, << >>, FALSE)]
            ELSE [SaveFromSocket(s1) EXCEPT
                    !.isApplyingRemoteAction = FALSE,
                    !.isDrawing = FALSE,
                    !.lastEvent = Ev(st, "relay", 1, << >>, FALSE)]

\* on('drawing-action'): reading data.emitterSocketId of null throws before
\* the flag is set; a throw inside applyDrawingAction leaves it set and skips
\* saveHistory.
OnDrawingActionMessage(st, data) ==
  IF IsNull(data)
    THEN [st EXCEPT !.received = @ + 1,
                    !.lastEvent = Ev(st, "relay-threw", 0, << >>, FALSE)]
    ELSE
      LET r == ApplyDrawingAction(data, st.canvas, st.ctx, st.eraserWidth)
          s1 == [st EXCEPT !.canvas = r.canvas, !.ctx = r.ctx,
                           !.received = @ + 1]
      IN  IF r.threw
            THEN [s1 EXCEPT !.isApplyingRemoteAction = TRUE,
                            !.lastEvent = Ev(st, "relay-threw", 0, << >>, FALSE)]
            ELSE [SaveFromSocket(s1) EXCEPT
                    !.isApplyingRemoteAction = FALSE,
                    !.lastEvent = Ev(st, "relay", 1, << >>, FALSE)]

\* ---- effects and image loads

\* The timer of the mount effect (Canvas.jsx:133-146): saveHistory of the
\* first render, on the blank canvas.
MountTimer(st) ==
  LET r == SaveHistory(<< >>, -1, st.canvas)
  IN  [st EXCEPT !.history = r.history, !.historyStep = r.historyStep,
                 !.mounted = TRUE,
                 !.lastEvent = [Ev(st, "mount", 1, << >>, FALSE) EXCEPT !.seq = 0]]

ValidStep(st) ==
  Len(st.history) > 0 /\ st.historyStep >= 0 /\ st.historyStep < Len(st.history)

\* The images that the effects of the render after a handler start loading:
\* the restore effect (Canvas.jsx:191-195) runs when history or historyStep
\* changed, the preview effect (Canvas.jsx:249-251) when one of the
\* dependencies of drawShapePreview did; old is the state before the handler,
\* new the state it left.  A push makes a new history array and a pointer
\* handler new position objects, so both count as changes.  Each image carries
\* the name and the number of the event whose render started it.
EffectImages(old, new) ==
  LET pushed == new.lastEvent.pushes > 0
      stepped == new.historyStep # old.historyStep
      restore ==
        IF (pushed \/ stepped) /\ ValidStep(new)
          THEN << [img |-> new.history[new.historyStep + 1],
                   shape |-> NoImageShape,
                   startPos |-> new.startPos, currentPos |-> new.currentPos,
                   by |-> new.lastEvent.name, at |-> new.lastEvent.seq] >>
          ELSE << >>
      changed ==
        \/ pushed \/ stepped \/ new.lastEvent.posSet
        \/ new.isDrawing # old.isDrawing \/ new.tool # old.tool
        \/ new.previewMode # old.previewMode
        \/ new.color # old.color \/ new.lineWidth # old.lineWidth
      preview ==
        IF /\ changed /\ new.isDrawing /\ new.tool \in {"rectangle", "circle"}
           /\ new.previewMode /\ ValidStep(new)
          THEN << [img |-> new.history[new.historyStep + 1],
                   shape |-> new.tool,
                   startPos |-> new.startPos, currentPos |-> new.currentPos,
                   by |-> new.lastEvent.name, at |-> new.lastEvent.seq] >>
          ELSE << >>
  IN  restore \o preview

\* The render after a handler: the state the handler left, with the images
\* its effects start.
Rendered(old, new) == [new EXCEPT !.images = @ \o EffectImages(old, new)]

\* img.onload of the oldest pending image: of restoreHistory
\* (Canvas.jsx:171-174) or of drawShapePreview (Canvas.jsx:227-244).
ImageLoaded(st) ==
  LET i == Head(st.images)
      base == ClearAndDrawImage(i.img, st.ctx.gco)
  IN  CASE i.shape = "rectangle" ->
             [st EXCEPT
                !.images = Tail(@),
                !.canvas = StrokeRect(base, i.startPos.x, i.startPos.y,
                                      i.currentPos.x - i.startPos.x,
                                      i.currentPos.y - i.startPos.y,
                                      st.ctx.gco)]
        [] i.shape = "circle" ->
             LET path == Arc(<< >>, i.startPos.x, i.startPos.y,
                             Radius(i.startPos, i.currentPos))
             IN  [st EXCEPT
                    !.images = Tail(@),
                    !.canvas = Append(base, StrokeMark(path, st.ctx.gco)),
                    !.ctx = [gco |-> st.ctx.gco, path |-> path]]
        [] OTHER ->
             [st EXCEPT !.images = Tail(@), !.canvas = base]

\* Every pending image loaded, oldest first.
RECURSIVE LoadAll(_)
LoadAll(st) == IF st.images = << >> THEN st ELSE LoadAll(ImageLoaded(st))

\* A client that has been used before the run starts: mounted, the rectangle
\* tool chosen, one rectangle dragged from (3, 4) to (6, 8), every image
\* loaded.  Its history is the blank snapshot and the one with the rectangle.
DrawnClientState ==
  LET s0 == LoadAll(Rendered(InitClientState, MountTimer(InitClientState)))
      s1 == LoadAll(Rendered(s0, SetTool(s0, "rectangle")))
      s2 == LoadAll(Rendered(s1, StartDrawing(s1, Point(3, 4), "")))
      s3 == LoadAll(Rendered(s2, StopDrawing(s2, Point(6, 8), "mouseup")))
  IN  [s3 EXCEPT !.lastEvent.seq = 0]

\* ---- the client's actions

\* The handler result `new` becomes client c's state.
Becomes(c, new) == client' = [client EXCEPT ![c] = Rendered(client[c], new)]

\* Client c can take an event: it has mounted (the mount timer, of 0 ms, runs
\* before any input or message is handled) and the run has events left.
Ready(c) == client[c].mounted /\ client[c].lastEvent.seq < MaxEvents

\* The toolbar is used with no gesture open: the pointer leaves the canvas to
\* reach it, and leaving ends the gesture (onMouseOut), unless stopDrawing
\* returns at its first line because isApplyingRemoteAction is set.
AtToolbar(c) ==
  Ready(c) /\ (~client[c].isDrawing \/ client[c].isApplyingRemoteAction)

ClientMount(c) ==
  /\ ~client[c].mounted
  /\ Becomes(c, MountTimer(client[c]))

ClientMouseDown(c, p, text) ==
  /\ Ready(c)
  /\ (client[c].tool # "text" \/ client[c].isApplyingRemoteAction)
       => text = ""
  /\ Becomes(c, StartDrawing(client[c], p, text))

ClientMouseMove(c, p) ==
  /\ Ready(c)
  /\ Becomes(c, Draw(client[c], p))

ClientMouseUp(c, p) ==
  /\ Ready(c)
  /\ Becomes(c, StopDrawing(client[c], p, "mouseup"))

ClientMouseOut(c, p) ==
  /\ Ready(c)
  /\ Becomes(c, StopDrawing(client[c], p, "mouseout"))

ClientSetTool(c, t) ==
  /\ AtToolbar(c)
  /\ t # client[c].tool
  /\ Becomes(c, SetTool(client[c], t))

ClientSetColor(c, v) ==
  /\ AtToolbar(c)
  /\ v # client[c].color
  /\ Becomes(c, SetColor(client[c], v))

ClientSetLineWidth(c, v) ==
  /\ AtToolbar(c)
  /\ v # client[c].lineWidth
  /\ Becomes(c, SetLineWidth(client[c], v))

ClientSetEraserWidth(c, v) ==
  /\ AtToolbar(c)
  /\ v # client[c].eraserWidth
  /\ Becomes(c, SetEraserWidth(client[c], v))

ClientClear(c) ==
  /\ AtToolbar(c)
  /\ Becomes(c, HandleClear(client[c]))

\* The undo and redo buttons are disabled where the handlers do nothing
\* (Canvas.jsx:474-475).
ClientUndo(c) ==
  /\ AtToolbar(c)
  /\ ~(client[c].historyStep <= 0)
  /\ Becomes(c, HandleUndo(client[c]))

ClientRedo(c) ==
  /\ AtToolbar(c)
  /\ ~(client[c].historyStep >= Len(client[c].history) - 1)
  /\ Becomes(c, HandleRedo(client[c]))

\* The replay is the first message on a socket, when there is one.
ClientInitialDrawingHistory(c, actions) ==
  /\ Ready(c)
  /\ client[c].received = 0
  /\ Becomes(c, OnInitialDrawingHistory(client[c], actions))

ClientDrawingAction(c, data) ==
  /\ Ready(c)
  /\ Becomes(c, OnDrawingActionMessage(client[c], data))

ClientImageLoaded(c) ==
  /\ client[c].images # << >>
  /\ client' = [client EXCEPT ![c] = ImageLoaded(client[c])]

\* ------------------------------------------------------ the specifications

\* The log after EarlierSession connected alone, submitted
\* MAX_HISTORY_LENGTH - 1 actions and left: one short of capacity.
FilledLog == [i \in 1..(MAX_HISTORY_LENGTH - 1) |-> FillAction(i)]

FilledAccepted ==
  [i \in 1..(MAX_HISTORY_LENGTH - 1) |->
     [data |-> FillAction(i), from |-> EarlierSession, event |-> "drawing-action"]]

\* The server as started (an empty log) or with a log one short of capacity;
\* nobody connected; clients not yet mounted.
InitServer ==
  /\ \E filled \in BOOLEAN :
       /\ drawingActionsHistory = IF filled THEN FilledLog ELSE << >>
       /\ accepted = IF filled THEN FilledAccepted ELSE << >>
  /\ sockets = [s \in SessionIds |-> "fresh"]
  /\ inbox = [s \in SessionIds |-> << >>]
  /\ connectedAt = [s \in SessionIds |-> -1]
  /\ handled = 0
  /\ client = [c \in Clients |-> InitClientState]

\* The client as constructed (useState's initial values, nothing drawn) or
\* with one rectangle drawn, and the server as started.
InitClient ==
  /\ \E drawn \in BOOLEAN :
       client = [c \in Clients |->
                   IF drawn /\ c \in SoloClients THEN DrawnClientState
                                                 ELSE InitClientState]
  /\ drawingActionsHistory = << >>
  /\ accepted = << >>
  /\ sockets = [s \in SessionIds |-> "fresh"]
  /\ inbox = [s \in SessionIds |-> << >>]
  /\ connectedAt = [s \in SessionIds |-> -1]
  /\ handled = 0

\* Clients and server as constructed.
InitSession ==
  /\ client = [c \in Clients |-> InitClientState]
  /\ drawingActionsHistory = << >>
  /\ accepted = << >>
  /\ sockets = [s \in SessionIds |-> "fresh"]
  /\ inbox = [s \in SessionIds |-> << >>]
  /\ connectedAt = [s \in SessionIds |-> -1]
  /\ handled = 0

\* The server alone: sockets connect, send any payload and leave; it handles
\* MaxSubmit messages in a run.
SrvConnection == \E s \in SessionIds : Connection(s) /\ UNCHANGED client
SrvDrawingAction ==
  \E s \in SessionIds, data \in Payloads :
    handled < MaxSubmit /\ OnDrawingAction(s, data) /\ UNCHANGED client
SrvClearCanvas ==
  \E s \in SessionIds :
    handled < MaxSubmit /\ OnClearCanvas(s) /\ UNCHANGED client
SrvDisconnect == \E s \in SessionIds : OnDisconnect(s) /\ UNCHANGED client

NextServer == SrvConnection \/ SrvDrawingAction \/ SrvClearCanvas \/ SrvDisconnect

SpecServer == InitServer /\ [][NextServer]_vars

\* One client alone: any input event, and any message from the server.
CliMount == \E c \in SoloClients : ClientMount(c) /\ UNCHANGED serverVars
CliMouseDown ==
  \E c \in SoloClients, p \in MousePoints, text \in PromptAnswers :
    ClientMouseDown(c, p, text) /\ UNCHANGED serverVars
CliMouseMove ==
  \E c \in SoloClients, p \in MousePoints :
    ClientMouseMove(c, p) /\ UNCHANGED serverVars
CliMouseUp ==
  \E c \in SoloClients, p \in MousePoints :
    ClientMouseUp(c, p) /\ UNCHANGED serverVars
CliMouseOut ==
  \E c \in SoloClients, p \in MousePoints :
    ClientMouseOut(c, p) /\ UNCHANGED serverVars
CliSetTool ==
  \E c \in SoloClients, t \in Tools : ClientSetTool(c, t) /\ UNCHANGED serverVars
CliSetColor ==
  \E c \in SoloClients, v \in Colors : ClientSetColor(c, v) /\ UNCHANGED serverVars
CliSetLineWidth ==
  \E c \in SoloClients, v \in LineWidths :
    ClientSetLineWidth(c, v) /\ UNCHANGED serverVars
CliSetEraserWidth ==
  \E c \in SoloClients, v \in EraserWidths :
    ClientSetEraserWidth(c, v) /\ UNCHANGED serverVars
CliClear == \E c \in SoloClients : ClientClear(c) /\ UNCHANGED serverVars
CliUndo == \E c \in SoloClients : ClientUndo(c) /\ UNCHANGED serverVars
CliRedo == \E c \in SoloClients : ClientRedo(c) /\ UNCHANGED serverVars
CliInitialDrawingHistory ==
  \E c \in SoloClients, actions \in ReplayLists :
    ClientInitialDrawingHistory(c, actions) /\ UNCHANGED serverVars
CliDrawingAction ==
  \E c \in SoloClients, data \in RemoteActions :
    ClientDrawingAction(c, data) /\ UNCHANGED serverVars
CliImageLoaded == \E c \in SoloClients : ClientImageLoaded(c) /\ UNCHANGED serverVars

NextClient ==
  \/ CliMount \/ CliMouseDown \/ CliMouseMove \/ CliMouseUp \/ CliMouseOut
  \/ CliSetTool \/ CliSetColor \/ CliSetLineWidth \/ CliSetEraserWidth
  \/ CliClear \/ CliUndo \/ CliRedo
  \/ CliInitialDrawingHistory \/ CliDrawingAction \/ CliImageLoaded

SpecClient == InitClient /\ [][NextClient]_vars

\* Clients and server together.  Client A's socket is the first to connect,
\* client B's the second; the pointer handlers run on both, with the pen, and
\* only where they do something (a move to another point or a release, with a
\* gesture open);
\* what a handler emits waits in the client's outbox until the server handles
\* it (a socket not yet connected buffers its emits), and what the server
\* emits waits in the socket's inbox until the client handles it.  The images
\* a handler's render starts have loaded before the next step; the user draws
\* once the socket is connected, and the server has handled what was sent
\* before the next input or delivery (two inputs of different clients
\* commute, so the server still handles their messages in either order).
SocketOf(c) == IF c = "A" THEN Min(1, MaxSessions) ELSE Min(2, MaxSessions)

\* Nothing sent waits for the server.
Quiet == \A c \in Clients : client[c].outbox = << >>

\* Client c can take an input event.
CanDraw(c) == Ready(c) /\ Quiet /\ sockets[SocketOf(c)] = "open"

\* The handler result `new` becomes client c's state and its emits are sent.
Sends(c, new) ==
  client' = [client EXCEPT ![c] =
               [LoadAll(Rendered(client[c], new)) EXCEPT
                  !.outbox = @ \o new.lastEvent.emits]]

SesMount ==
  \E c \in Clients :
    /\ ~client[c].mounted
    /\ Sends(c, MountTimer(client[c]))
    /\ UNCHANGED serverVars
SesConnection ==
  \E c \in Clients :
    client[c].mounted /\ Connection(SocketOf(c)) /\ UNCHANGED client
SesMouseDown ==
  \E c \in Clients, p \in MousePoints :
    /\ CanDraw(c) /\ ~client[c].isDrawing
    /\ Sends(c, StartDrawing(client[c], p, ""))
    /\ UNCHANGED serverVars
SesMouseMove ==
  \E c \in Clients, p \in MousePoints :
    /\ CanDraw(c) /\ client[c].isDrawing
    /\ p # client[c].currentPos
    /\ Sends(c, Draw(client[c], p))
    /\ UNCHANGED serverVars
SesMouseUp ==
  \E c \in Clients :
    /\ CanDraw(c) /\ client[c].isDrawing
    /\ Sends(c, StopDrawing(client[c], client[c].currentPos, "mouseup"))
    /\ UNCHANGED serverVars
SesClear ==
  \E c \in Clients :
    /\ CanDraw(c) /\ AtToolbar(c)
    /\ Sends(c, HandleClear(client[c]))
    /\ UNCHANGED serverVars

\* The server handles the oldest message client c sent.
SesSubmit ==
  \E c \in Clients :
    /\ client[c].outbox # << >>
    /\ IF Head(client[c].outbox).event = "clear-canvas"
         THEN OnClearCanvas(SocketOf(c))
         ELSE OnDrawingAction(SocketOf(c), Head(client[c].outbox).data)
    /\ client' = [client EXCEPT ![c].outbox = Tail(@)]

\* Client c handles the oldest message the server emitted to its socket.
SesDeliver ==
  \E c \in Clients :
    LET m == Head(inbox[SocketOf(c)])
    IN  /\ Ready(c) /\ Quiet
        /\ inbox[SocketOf(c)] # << >>
        /\ Sends(c, IF m.event = "initial-drawing-history"
                       THEN OnInitialDrawingHistory(client[c], m.actions)
                       ELSE OnDrawingActionMessage(client[c], m.data))
        /\ inbox' = [inbox EXCEPT ![SocketOf(c)] = Tail(@)]
        /\ UNCHANGED <<drawingActionsHistory, sockets, accepted, connectedAt,
                       handled>>

NextSession ==
  \/ SesMount \/ SesConnection
  \/ SesMouseDown \/ SesMouseMove \/ SesMouseUp \/ SesClear
  \/ SesSubmit \/ SesDeliver

SpecSession == InitSession /\ [][NextSession]_vars

\* Clients and server together, the users writing text and clearing: each
\* picks the text tool, then clicks on the canvas and answers the prompt, or
\* clicks Clear.  Scheduling is that of the session above.
TxtSetTool ==
  \E c \in Clients :
    /\ CanDraw(c) /\ AtToolbar(c)
    /\ client[c].tool # "text"
    /\ Sends(c, SetTool(client[c], "text"))
    /\ UNCHANGED serverVars
TxtMouseDown ==
  \E c \in Clients, p \in MousePoints, text \in PromptAnswers \ {""} :
    /\ CanDraw(c)
    /\ client[c].tool = "text"
    /\ Sends(c, StartDrawing(client[c], p, text))
    /\ UNCHANGED serverVars

NextText ==
  \/ SesMount \/ SesConnection \/ TxtSetTool \/ TxtMouseDown \/ SesClear
  \/ SesSubmit \/ SesDeliver

SpecText == InitSession /\ [][NextText]_vars

\* ------------------------------------------------- the server's properties

\* The payloads handled so far, in handling order.
AcceptedData == [i \in 1..Len(accepted) |-> accepted[i].data]

\* The last k entries of seq.
LastOf(seq, k) == SubSeq(seq, Len(seq) - k + 1, Len(seq))

\* The newest min(n, MAX_HISTORY_LENGTH) of the first n payloads handled.
NewestOfFirst(n) ==
  LastOf(SubSeq(AcceptedData, 1, n), Min(n, MAX_HISTORY_LENGTH))

IsRelay(m) == m.event = "drawing-action"
IsReplay(m) == m.event = "initial-drawing-history"

\* The message handled in this step, when one was.
Handles == Len(accepted') = Len(accepted) + 1
Newest == accepted'[Len(accepted')]

\* C1: the log is the newest min(N, 200) of the N payloads handled, in
\* handling order, and a socket that connected after n > 0 of them was sent,
\* first, a replay of the newest min(n, 200) of those n.
C1_ReplayIsNewest ==
  /\ drawingActionsHistory = NewestOfFirst(Len(accepted))
  /\ \A s \in OpenSockets :
       connectedAt[s] > 0 =>
         /\ Len(inbox[s]) > 0
         /\ IsReplay(inbox[s][1])
         /\ inbox[s][1].actions = NewestOfFirst(connectedAt[s])

\* 201 payloads handled, and a socket that connected then holds a replay of
\* 200 entries that starts at the second payload ever handled.
C1_Witness ==
  \E s \in OpenSockets :
    /\ connectedAt[s] = MAX_HISTORY_LENGTH + 1
    /\ Len(inbox[s]) > 0
    /\ IsReplay(inbox[s][1])
    /\ Len(inbox[s][1].actions) = MAX_HISTORY_LENGTH
    /\ inbox[s][1].actions[1] = FillAction(2)
    /\ inbox[s][1].actions[MAX_HISTORY_LENGTH] \in Payloads \cup {clearAction}

\* C2: the log never holds more than 200 entries, and a message handled
\* while it holds 200 removes the head and nothing else: the log becomes its
\* tail followed by the new entry.
C2_Bounded ==
  /\ [](Len(drawingActionsHistory) <= MAX_HISTORY_LENGTH)
  /\ [][(Handles /\ Len(drawingActionsHistory) = MAX_HISTORY_LENGTH) =>
          drawingActionsHistory' =
            Append(Tail(drawingActionsHistory), Newest.data)]_vars

\* The log is full and one entry has been evicted from it.
C2_Witness ==
  /\ Len(drawingActionsHistory) = MAX_HISTORY_LENGTH
  /\ Len(accepted) = MAX_HISTORY_LENGTH + 1
  /\ drawingActionsHistory[1] = FillAction(2)
  /\ \E s \in SessionIds : sockets[s] = "closed"

\* C3: the relay of a message from socket s goes to the sockets open at that
\* moment other than s, and to no other; no socket ever holds a relay of a
\* message it sent.
C3_NoEcho ==
  /\ [](\A s \in SessionIds : \A i \in DOMAIN inbox[s] :
          IsRelay(inbox[s][i]) => accepted[inbox[s][i].n].from # s)
  /\ [][Handles =>
          \A t \in SessionIds :
            (Len(inbox'[t]) = Len(inbox[t]) + 1)
              <=> (sockets[t] = "open" /\ t # Newest.from)]_vars

\* Three sockets are open; one has sent a message, the two others hold its
\* relay and the sender holds nothing.
C3_Witness ==
  \E s \in OpenSockets :
    /\ Cardinality(OpenSockets) = 3
    /\ Len(accepted) > 0
    /\ accepted[Len(accepted)].from = s
    /\ inbox[s] = << >>
    /\ \A t \in OpenSockets \ {s} :
         \E i \in DOMAIN inbox[t] :
           IsRelay(inbox[t][i]) /\ inbox[t][i].n = Len(accepted)

\* The place in the log of the n-th payload handled (below 1: evicted).
LogIndex(n) == n - (Len(accepted) - Len(drawingActionsHistory))

\* C4: two actions that two sockets both receive as relays reach both in the
\* same order, the order in which the server handled them; and a relayed
\* action still in the log sits there at the place of its handling order.
C4_OneOrder ==
  /\ \A r1, r2 \in SessionIds :
       \A i1, j1 \in DOMAIN inbox[r1] : \A i2, j2 \in DOMAIN inbox[r2] :
         ( /\ IsRelay(inbox[r1][i1]) /\ IsRelay(inbox[r1][j1])
           /\ IsRelay(inbox[r2][i2]) /\ IsRelay(inbox[r2][j2])
           /\ inbox[r1][i1].n = inbox[r2][i2].n
           /\ inbox[r1][j1].n = inbox[r2][j2].n
           /\ i1 < j1 )
         => (i2 < j2 /\ inbox[r1][i1].n < inbox[r1][j1].n)
  /\ \A s \in SessionIds : \A i \in DOMAIN inbox[s] :
       (IsRelay(inbox[s][i]) /\ LogIndex(inbox[s][i].n) >= 1) =>
         drawingActionsHistory[LogIndex(inbox[s][i].n)] = inbox[s][i].data

\* Two sockets hold the relays of the same two different actions of a third,
\* both still in the log.
C4_Witness ==
  \E r1, r2 \in OpenSockets :
    /\ r1 # r2
    /\ Len(inbox[r1]) >= 2 /\ Len(inbox[r2]) >= 2
    /\ IsRelay(inbox[r1][Len(inbox[r1]) - 1]) /\ IsRelay(inbox[r1][Len(inbox[r1])])
    /\ IsRelay(inbox[r2][Len(inbox[r2]) - 1]) /\ IsRelay(inbox[r2][Len(inbox[r2])])
    /\ inbox[r1][Len(inbox[r1]) - 1] = inbox[r2][Len(inbox[r2]) - 1]
    /\ inbox[r1][Len(inbox[r1])] = inbox[r2][Len(inbox[r2])]
    /\ inbox[r1][Len(inbox[r1])].data # inbox[r1][Len(inbox[r1]) - 1].data
    /\ LogIndex(inbox[r1][Len(inbox[r1]) - 1].n) >= 1

\* C5: a handled payload is appended to the log as it came and emitted as it
\* came, once, to each other open socket, whatever the length of the log; no
\* socket ever holds two relays of one submission.
C5_RelayedOnceUnchanged ==
  /\ [](\A s \in SessionIds : \A i, j \in DOMAIN inbox[s] :
          (IsRelay(inbox[s][i]) /\ IsRelay(inbox[s][j]) /\ i # j)
            => inbox[s][i].n # inbox[s][j].n)
  /\ [][Handles =>
          /\ drawingActionsHistory'[Len(drawingActionsHistory')] = Newest.data
          /\ \A t \in OpenSockets \ {Newest.from} :
               inbox'[t] = Append(inbox[t],
                                  [event |-> "drawing-action",
                                   data |-> Newest.data,
                                   n |-> Len(accepted')])
          /\ \A t \in SessionIds \ (OpenSockets \ {Newest.from}) :
               inbox'[t] = inbox[t]]_vars

\* A malformed payload was handled while the log was full: the log is still
\* full and ends with it, and another socket holds it as its newest relay.
C5_Witness ==
  /\ Len(accepted) = MAX_HISTORY_LENGTH + 1
  /\ Len(drawingActionsHistory) = MAX_HISTORY_LENGTH
  /\ accepted[Len(accepted)].data = [type |-> "rect"]
  /\ drawingActionsHistory[MAX_HISTORY_LENGTH] = [type |-> "rect"]
  /\ \E t \in OpenSockets :
       /\ Len(inbox[t]) > 0
       /\ inbox[t][Len(inbox[t])] =
            [event |-> "drawing-action", data |-> [type |-> "rect"],
             n |-> Len(accepted)]

\* C6: a socket holds at most one replay, and it is the first thing emitted
\* to it; a replay is emitted only in the step in which its socket connects,
\* only when the log is not empty, carries the whole log in log order and
\* goes to no other socket; a socket that connects while the log is empty is
\* sent nothing then.
C6_ReplayOnceAtConnect ==
  /\ [](\A s \in SessionIds : \A i \in DOMAIN inbox[s] :
          IsReplay(inbox[s][i]) => i = 1)
  /\ [][\A s \in SessionIds :
          /\ ( /\ Len(inbox'[s]) > Len(inbox[s])
               /\ IsReplay(inbox'[s][Len(inbox'[s])]) )
             => /\ sockets[s] = "fresh" /\ sockets'[s] = "open"
                /\ Len(drawingActionsHistory) > 0
                /\ inbox'[s] = << [event |-> "initial-drawing-history",
                                   actions |-> drawingActionsHistory,
                                   n |-> Len(accepted)] >>
                /\ \A t \in SessionIds \ {s} : inbox'[t] = inbox[t]
          /\ (sockets[s] = "fresh" /\ sockets'[s] = "open")
             => (Len(inbox'[s]) = 1 <=> Len(drawingActionsHistory) > 0)
          /\ ( /\ sockets[s] = "fresh" /\ sockets'[s] = "open"
               /\ Len(drawingActionsHistory) = 0 )
             => inbox'[s] = << >>]_vars

\* One socket connected while the log was empty and has since received a
\* relay and no replay, although the log is no longer empty; another socket
\* connected later and holds a replay.
C6_Witness ==
  \E s, t \in OpenSockets :
    /\ connectedAt[s] = 0
    /\ Len(inbox[s]) > 0
    /\ \A i \in DOMAIN inbox[s] : IsRelay(inbox[s][i])
    /\ connectedAt[t] > 0
    /\ IsReplay(inbox[t][1])
    /\ Len(drawingActionsHistory) > 0

\* C7: a "clear-canvas" message from socket s appends one clear action to the
\* log, after the entries already there (less the head when the log was
\* full), and sends that clear action to the other open sockets and not to s.
C7_ClearAppended ==
  [][(Handles /\ Newest.event = "clear-canvas") =>
       /\ drawingActionsHistory' =
            Append(IF Len(drawingActionsHistory) = MAX_HISTORY_LENGTH
                     THEN Tail(drawingActionsHistory)
                     ELSE drawingActionsHistory,
                   [type |-> "clear"])
       /\ \A t \in SessionIds :
            inbox'[t] =
              IF sockets[t] = "open" /\ t # Newest.from
                THEN Append(inbox[t], [event |-> "drawing-action",
                                       data |-> [type |-> "clear"],
                                       n |-> Len(accepted')])
                ELSE inbox[t]]_vars

\* A clear-canvas was handled after another action: the log holds both, the
\* clear last, another open socket holds the clear as a relay and the sender
\* holds no relay of it.
C7_Witness ==
  /\ Len(accepted) >= 2
  /\ accepted[Len(accepted)].event = "clear-canvas"
  /\ Len(drawingActionsHistory) >= 2
  /\ drawingActionsHistory[Len(drawingActionsHistory)] = [type |-> "clear"]
  /\ drawingActionsHistory[Len(drawingActionsHistory) - 1] \in Payloads
  /\ accepted[Len(accepted)].from \in OpenSockets
  /\ \A i \in DOMAIN inbox[accepted[Len(accepted)].from] :
       inbox[accepted[Len(accepted)].from][i].n # Len(accepted)
  /\ \E t \in OpenSockets :
       /\ Len(inbox[t]) > 0
       /\ inbox[t][Len(inbox[t])] =
            [event |-> "drawing-action", data |-> [type |-> "clear"],
             n |-> Len(accepted)]

\* What the server relays to socket s for the messages handled after the k-th:
\* one relay for each that another socket sent, in handling order.
RECURSIVE RelaysSince(_, _)
RelaysSince(s, k) ==
  IF k >= Len(accepted)
    THEN << >>
    ELSE (IF accepted[k + 1].from # s
            THEN << [event |-> "drawing-action", data |-> accepted[k + 1].data,
                     n |-> k + 1] >>
            ELSE << >>) \o RelaysSince(s, k + 1)

\* C20: what a socket was sent since it connected is the log as it was at the
\* connect, when it held anything, and then one relay for each message handled
\* after the connect that another socket sent, in handling order: none
\* missing, none twice, none that the replay already held.
C20_JoinLosesNothing ==
  \A s \in OpenSockets :
    inbox[s] =
      (IF connectedAt[s] > 0
         THEN << [event |-> "initial-drawing-history",
                  actions |-> NewestOfFirst(connectedAt[s]),
                  n |-> connectedAt[s]] >>
         ELSE << >>) \o RelaysSince(s, connectedAt[s])

\* A socket that connected to a log with entries has since sent a message
\* itself and been relayed another socket's.
C20_Witness ==
  \E s \in OpenSockets :
    /\ connectedAt[s] > 0
    /\ Len(inbox[s]) = 2
    /\ IsReplay(inbox[s][1])
    /\ IsRelay(inbox[s][2])
    /\ \E k \in (connectedAt[s] + 1)..Len(accepted) : accepted[k].from = s

\* ------------------------------------------------- the client's properties

\* The handler that ran in this step of client c (image loads are not
\* handlers), and whether it called saveHistory.
Handled(c) == client'[c].lastEvent # client[c].lastEvent
Pushed(c) == Handled(c) /\ client'[c].lastEvent.pushes > 0

\* What a push is to leave: the sequence up to the cursor, then the canvas as
\* the handler left it, the cursor on it; from a cursor at the tip, the whole
\* sequence and one more.
PushAppends(c) ==
  /\ client'[c].history =
       Append(SubSeq(client[c].history, 1, client[c].historyStep + 1),
              client'[c].canvas)
  /\ client'[c].historyStep = Len(client'[c].history) - 1
  /\ client[c].historyStep = Len(client[c].history) - 1 =>
       /\ Len(client'[c].history) = Len(client[c].history) + 1
       /\ SubSeq(client'[c].history, 1, Len(client[c].history)) = client[c].history

\* C8: every push, by a local gesture, an inbound action or a replay, leaves
\* the sequence up to the cursor followed by the new snapshot, with the
\* cursor on it; a push from the tip keeps every earlier snapshot.
C8_EveryPushAppends ==
  [][\A c \in Clients : Pushed(c) => PushAppends(c)]_vars

\* The same of the pushes made by the handlers of local input alone.
C8_LocalPushAppends ==
  [][\A c \in Clients :
       (Pushed(c) /\ client'[c].lastEvent.name \notin {"relay", "replay"})
         => PushAppends(c)]_vars

\* The handler completed a gesture: it emitted a stop, rect, circle or text
\* action, or a clear.
CompletedGesture(e) ==
  /\ e.emits # << >>
  /\ \/ e.emits[1].event = "clear-canvas"
     \/ /\ e.emits[1].event = "drawing-action"
        /\ e.emits[1].data.type \in {"stop", "rect", "circle", "text"}

\* C9: a handler pushes once when it completes a local gesture or applies an
\* inbound action or a replay, and not otherwise; a pointer release or leave
\* with no gesture open pushes nothing.
C9_OnePushPerGesture ==
  \A c \in Clients :
    LET e == client[c].lastEvent
    IN  /\ e.pushes = IF CompletedGesture(e) \/ e.name \in {"relay", "replay", "mount"}
                         THEN 1 ELSE 0
        /\ (e.name \in {"mouseup", "mouseout"} /\ ~e.wasDrawing) => e.pushes = 0

\* The same, but for a release or leave with the rectangle or circle tool
\* selected and no gesture open.
C9_OnePushButIdleShape ==
  \A c \in Clients :
    LET e == client[c].lastEvent
    IN  /\ e.pushes = IF CompletedGesture(e) \/ e.name \in {"relay", "replay", "mount"}
                         THEN 1 ELSE 0
        /\ ( /\ e.name \in {"mouseup", "mouseout"} /\ ~e.wasDrawing
             /\ client[c].tool \notin {"rectangle", "circle"} ) => e.pushes = 0

\* C10: the cursor is -1 while the sequence is empty and an index of the
\* sequence otherwise.
C10_CursorInRange ==
  \A c \in Clients :
    IF client[c].history = << >>
      THEN client[c].historyStep = -1
      ELSE 0 <= client[c].historyStep /\ client[c].historyStep < Len(client[c].history)

\* After a push by an inbound message and a local push, an undo has left the
\* cursor below the tip.
C10_Witness ==
  \E c \in Clients :
    /\ client[c].received > 0
    /\ client[c].lastEvent.name = "undo"
    /\ Len(client[c].history) = 2
    /\ client[c].historyStep = 0

\* The handlers of local input that called saveHistory.
LocalPush(e) ==
  e.pushes > 0 /\ e.name \in {"mousedown", "mouseup", "mouseout", "clear"}

\* handleRedo in state st changes neither the cursor, the sequence nor the
\* canvas, and starts no restore.
RedoIsNoOp(st) ==
  LET r == HandleRedo(st)
  IN  /\ r.historyStep = st.historyStep
      /\ r.history = st.history
      /\ r.canvas = st.canvas
      /\ EffectImages(st, r) = << >>

\* C11: after an undo and then a push by a local action, the cursor is on the
\* last snapshot, the snapshots that were above the cursor are gone, and a
\* redo changes neither cursor, sequence nor canvas.
C11_RedoAfterPushIsNoOp ==
  \A c \in Clients :
    LET st == client[c]
    IN  (LocalPush(st.lastEvent) /\ st.lastEvent.redoable) =>
          /\ st.historyStep = Len(st.history) - 1
          /\ RedoIsNoOp(st)

\* A local clear was pushed from below the tip, after an undo: the sequence
\* is the blank snapshot and the new one.
C11_Witness ==
  \E c \in Clients :
    /\ LocalPush(client[c].lastEvent)
    /\ client[c].lastEvent.redoable
    /\ Len(client[c].history) = 2
    /\ client[c].historyStep = 1

\* The handler result r, reached from st, changed neither the cursor, the
\* sequence nor the canvas, and starts no restore.
LeavesAll(st, r) ==
  /\ r.historyStep = st.historyStep
  /\ r.history = st.history
  /\ r.canvas = st.canvas
  /\ EffectImages(st, r) = << >>

\* handleUndo and handleRedo on the cursor and the sequence: nothing at the
\* ends, one step otherwise.
UndoRedoMoves(st) ==
  /\ IF st.historyStep <= 0
       THEN LeavesAll(st, HandleUndo(st))
       ELSE /\ HandleUndo(st).historyStep = st.historyStep - 1
            /\ HandleUndo(st).history = st.history
  /\ IF st.historyStep = Len(st.history) - 1
       THEN LeavesAll(st, HandleRedo(st))
       ELSE /\ HandleRedo(st).historyStep = st.historyStep + 1
            /\ HandleRedo(st).history = st.history

\* The restore of an undo or redo has run to its end.
Restored(st) == st.lastEvent.name \in {"undo", "redo"} /\ st.images = << >>

\* C12: undo with the cursor at 0 or below and redo with the cursor on the
\* last snapshot change nothing; otherwise they move the cursor by one, keep
\* the sequence, and the canvas is restored to the snapshot at the new cursor.
C12_UndoRedoRestore ==
  \A c \in Clients :
    LET st == client[c]
    IN  /\ UndoRedoMoves(st)
        /\ Restored(st) => st.canvas = st.history[st.historyStep + 1]

\* The same, the restore being claimed only when it ran under the compositing
\* mode source-over and with no gesture open.
C12_RestoreUnderSourceOver ==
  \A c \in Clients :
    LET st == client[c]
    IN  /\ UndoRedoMoves(st)
        /\ (Restored(st) /\ st.ctx.gco = "source-over" /\ ~st.isDrawing)
             => st.canvas = st.history[st.historyStep + 1]

\* The handlers of local input and those of inbound messages, by the name
\* they leave in lastEvent.
LocalInputs == {"mousedown", "mousemove", "mouseup", "mouseout", "clear"}
InboundHandlers == {"relay", "relay-threw", "replay", "replay-threw"}

\* C13: whatever a client emits is emitted by the handler of a local input
\* event that started with isApplyingRemoteAction unset; the handlers of
\* inbound messages emit nothing.
C13_NoEmitWhileApplying ==
  \A c \in Clients :
    LET e == client[c].lastEvent
    IN  /\ e.emits # << >> => (e.name \in LocalInputs /\ ~e.wasApplying)
        /\ e.name \in InboundHandlers => e.emits = << >>

\* The same of every handler but handleClear.
C13_NoEmitButClear ==
  \A c \in Clients :
    LET e == client[c].lastEvent
    IN  /\ (e.emits # << >> /\ e.name # "clear")
             => (e.name \in LocalInputs /\ ~e.wasApplying)
        /\ e.name \in InboundHandlers => e.emits = << >>

\* C15: an undo or a redo emits nothing, leaves the server's log, what the
\* server emitted and every other client as they were, and leaves the
\* client's own sequence of snapshots as it was.
C15_UndoRedoLocal ==
  [][\A c \in Clients :
       (Handled(c) /\ client'[c].lastEvent.name \in {"undo", "redo"}) =>
         /\ client'[c].lastEvent.emits = << >>
         /\ client'[c].outbox = client[c].outbox
         /\ client'[c].history = client[c].history
         /\ UNCHANGED serverVars
         /\ \A d \in Clients \ {c} : client'[d] = client[d]]_vars

\* A redo has put the cursor back on the second of two snapshots.
C15_Witness ==
  \E c \in Clients :
    /\ client[c].lastEvent.name = "redo"
    /\ Len(client[c].history) = 2
    /\ client[c].historyStep = 1

\* C16: between two handlers isApplyingRemoteAction is unset: the handler of
\* an inbound message, well-formed or not, has unset it when it ends.
C16_FlagResetAfterInbound ==
  \A c \in Clients : ~client[c].isApplyingRemoteAction

\* The same of the inbound handlers that ran to their end.
C16_FlagResetUnlessThrown ==
  \A c \in Clients :
    client[c].isApplyingRemoteAction =>
      /\ client[c].lastEvent.name # "relay"
      /\ client[c].lastEvent.name # "replay"

\* The handler that ran last emitted a stop.
EmittedStop(e) ==
  /\ e.emits # << >>
  /\ e.emits[1].event = "drawing-action"
  /\ e.emits[1].data.type = "stop"

\* C17: a rectangle or a text, drawn locally or for a relayed action of
\* another tool than the eraser, is painted under source-over, whatever the
\* client was doing when it was drawn; and after a stop the compositing mode
\* is source-over.
C17_NoEraserLeak ==
  \A c \in Clients :
    /\ \A i \in 1..Len(client[c].canvas) :
         client[c].canvas[i].op \in {"rect", "text"}
           => client[c].canvas[i].gco = "source-over"
    /\ EmittedStop(client[c].lastEvent) => client[c].ctx.gco = "source-over"

\* A handler that starts under source-over ends under source-over, unless it
\* is the press or move of a local eraser gesture or it threw.
C17_ModePutBack ==
  [][\A c \in Clients :
       ( /\ Handled(c)
         /\ client[c].ctx.gco = "source-over"
         /\ client'[c].lastEvent.name \notin {"relay-threw", "replay-threw"}
         /\ ~( /\ client[c].tool = "eraser"
               /\ client'[c].lastEvent.name \in {"mousedown", "mousemove"} ) )
         => client'[c].ctx.gco = "source-over"]_vars

\* The handler that ran last emitted the end of a gesture: a stop, a rect or
\* a circle.
EmittedEnd(e) ==
  /\ e.emits # << >>
  /\ e.emits[1].event = "drawing-action"
  /\ e.emits[1].data.type \in {"stop", "rect", "circle"}

\* A release or a leave with no gesture open.
IdleRelease(e) == e.name \in {"mouseup", "mouseout"} /\ ~e.wasDrawing

\* C18: a stop, rect or circle is emitted only by the handler that ends an
\* open gesture, once, and leaves no gesture open; a release or a leave with
\* no gesture open emits nothing and pushes nothing, whatever the tool.
C18_WellFormedGestures ==
  \A c \in Clients :
    LET e == client[c].lastEvent
    IN  /\ EmittedEnd(e) =>
             /\ e.wasDrawing
             /\ e.name \in {"mouseup", "mouseout"}
             /\ Len(e.emits) = 1
             /\ ~client[c].isDrawing
        /\ IdleRelease(e) => (e.emits = << >> /\ e.pushes = 0)

\* The same with any tool but the rectangle and the circle selected.
C18_WellFormedButShapes ==
  \A c \in Clients :
    LET e == client[c].lastEvent
    IN  client[c].tool \notin {"rectangle", "circle"} =>
          /\ EmittedEnd(e) =>
               /\ e.wasDrawing
               /\ e.name \in {"mouseup", "mouseout"}
               /\ Len(e.emits) = 1
               /\ ~client[c].isDrawing
          /\ IdleRelease(e) => (e.emits = << >> /\ e.pushes = 0)

\* ------------------------------------------------ the session's properties

\* The path of the stroke that the n-th handled message belongs to, as its
\* sender drew it up to that message: a move to the point of the sender's last
\* start, then a line to the point of each of its draws since.
RECURSIVE StrokePath(_)
StrokePath(n) ==
  LET d == accepted[n].data
      before == {j \in 1..(n - 1) :
                   /\ accepted[j].from = accepted[n].from
                   /\ accepted[j].event = "drawing-action"
                   /\ accepted[j].data.type \in {"start", "draw"}}
  IN  IF d.type = "start" \/ before = {}
        THEN MoveTo(<< >>, d.x, d.y)
        ELSE LineTo(StrokePath(CHOOSE j \in before : \A k \in before : k <= j),
                    d.x, d.y)

\* The message before the n-th in its sender's stroke (0 if there is none).
StrokePrev(n) ==
  LET before == {j \in 1..(n - 1) :
                   /\ accepted[j].from = accepted[n].from
                   /\ accepted[j].event = "drawing-action"
                   /\ accepted[j].data.type \in {"start", "draw"}}
  IN  IF before = {} THEN 0 ELSE CHOOSE j \in before : \A k \in before : k <= j

\* In this step client c handles the oldest message of its socket's inbox,
\* a relayed action of one of the types.
Delivers(c, types) ==
  /\ inbox[SocketOf(c)] # << >>
  /\ inbox'[SocketOf(c)] = Tail(inbox[SocketOf(c)])
  /\ Handled(c)
  /\ Head(inbox[SocketOf(c)]).event = "drawing-action"
  /\ Head(inbox[SocketOf(c)]).data.type \in types

\* Client c renders the relayed draw m as its sender did: one stroke, of the
\* sender's path up to that draw, under source-over for the pen; and after a
\* relayed stop its compositing mode is source-over.
RendersStroke(c, m) ==
  /\ m.data.type = "draw" =>
       client'[c].canvas =
         Append(client[c].canvas,
                StrokeMark(StrokePath(m.n),
                           IF m.data.tool = "eraser" THEN "destination-out"
                                                     ELSE "source-over"))
  /\ m.data.type = "stop" => client'[c].ctx.gco = "source-over"

\* C14: a client that was connected when a pen or eraser stroke was submitted
\* renders, for each draw of the stroke, the segments its sender rendered, and
\* is in compositing mode source-over after the stop, whatever else it
\* handles between the messages of the stroke.
C14_StrokeRenderedAsDrawn ==
  [][\A c \in Clients :
       Delivers(c, {"draw", "stop"})
         => RendersStroke(c, Head(inbox[SocketOf(c)]))]_vars

\* The same of a draw that finds the context's path as the stroke left it,
\* and of a stop handled with no gesture of the client's own open.
C14_UninterruptedStroke ==
  [][\A c \in Clients :
       LET m == Head(inbox[SocketOf(c)])
       IN  ( /\ Delivers(c, {"draw", "stop"})
             /\ m.data.type = "draw" =>
                  /\ StrokePrev(m.n) > 0
                  /\ client[c].ctx.path = StrokePath(StrokePrev(m.n))
                  /\ client[c].ctx.gco = "source-over"
             /\ m.data.type = "stop" => ~client[c].isDrawing )
           => RendersStroke(c, m)]_vars

\* The types of the actions a client emits.
ActionTypes == {"start", "draw", "stop", "rect", "circle", "text", "clear"}

\* The open gesture of st goes on: a move to p is drawn and emitted, a release
\* is emitted and ends the gesture.
GestureGoesOn(st, p) ==
  /\ st.isDrawing
  /\ ~st.isApplyingRemoteAction
  /\ p # st.currentPos =>
       /\ Len(Draw(st, p).canvas) = Len(st.canvas) + 1
       /\ Len(Draw(st, p).lastEvent.emits) = 1
       /\ Draw(st, p).lastEvent.emits[1].data.type = "draw"
  /\ EmittedEnd(StopDrawing(st, p, "mouseup").lastEvent)
  /\ ~StopDrawing(st, p, "mouseup").isDrawing

\* C19: a relayed action handled while a gesture of the client's own is open
\* leaves the gesture open, with its tool and start point, and emits nothing;
\* the moves and the release that follow are drawn and emitted; and a relayed
\* clear leaves the canvas blank, gesture or not.
C19_GestureSurvivesRelay ==
  /\ [](\A c \in Clients :
          (client[c].lastEvent.name = "relay" /\ client[c].lastEvent.wasDrawing)
            => \A p \in MousePoints : GestureGoesOn(client[c], p))
  /\ [][\A c \in Clients :
          /\ (Delivers(c, ActionTypes) /\ client[c].isDrawing) =>
               /\ client'[c].isDrawing
               /\ client'[c].tool = client[c].tool
               /\ client'[c].startPos = client[c].startPos
               /\ client'[c].lastEvent.emits = << >>
               /\ client'[c].outbox = client[c].outbox
          /\ Delivers(c, {"clear"}) => client'[c].canvas = << >>]_vars

\* A client that had pressed and moved the pen has handled a relayed clear:
\* its canvas is blank, its path still holds the stroke.
C19_Witness ==
  \E c \in Clients :
    /\ client[c].lastEvent.name = "relay"
    /\ client[c].lastEvent.wasDrawing
    /\ client[c].isDrawing
    /\ client[c].canvas = << >>
    /\ Len(client[c].ctx.path) = 2
    /\ \E i \in 1..Len(accepted) :
         accepted[i].event = "clear-canvas" /\ accepted[i].from # SocketOf(c)

\* Every message sent has been handled by the server and by every client it
\* was relayed to, no gesture is open, and every client was connected before
\* the first message was handled.
Settled ==
  /\ Quiet
  /\ \A c \in Clients :
       /\ sockets[SocketOf(c)] = "open"
       /\ connectedAt[SocketOf(c)] = 0
       /\ inbox[SocketOf(c)] = << >>
       /\ ~client[c].isDrawing
       /\ client[c].images = << >>

\* What is painted on client c's canvas, whatever the paint order.
Painted(c) == {client[c].canvas[i] : i \in 1..Len(client[c].canvas)}

\* C21: once every message sent has been delivered and no gesture is open,
\* the clients that were connected throughout show the same canvas; a text
\* written by one while another clears does not leave them apart.
C21_Convergence ==
  Settled => \A c, d \in Clients : Painted(c) = Painted(d)

\* The same when one client alone has sent messages.
C21_OneSenderConverges ==
  (Settled /\ \A i, j \in 1..Len(accepted) : accepted[i].from = accepted[j].from)
    => \A c, d \in Clients : Painted(c) = Painted(d)

\* ---- restores

\* The step is the load of client c's oldest pending image, one that the
\* restore effect started.
RestoreLoads(c) ==
  /\ client[c].images # << >>
  /\ Head(client[c].images).shape = NoImageShape
  /\ client'[c] = ImageLoaded(client[c])

\* C22: a push does not alter the canvas: the only restores that change what
\* is on the canvas are those of an undo or a redo, so nothing drawn after a
\* push is erased by a restore that the push started.
C22_PushLeavesSurface ==
  [][\A c \in Clients :
       (RestoreLoads(c) /\ Head(client[c].images).by \notin {"undo", "redo"})
         => client'[c].canvas = client[c].canvas]_vars

\* The restore started by a push, loading before any other event and under
\* source-over, leaves on the canvas the snapshot that the push took.
C22_PromptRestoreShowsSnapshot ==
  [][\A c \in Clients :
       ( /\ RestoreLoads(c)
         /\ client[c].lastEvent.pushes > 0
         /\ Head(client[c].images).at = client[c].lastEvent.seq
         /\ client[c].ctx.gco = "source-over" )
         => client'[c].canvas = client[c].history[client[c].historyStep + 1]]_vars

\* ---- the session of a client

SettingsChanges == {"setColor", "setLineWidth", "setEraserWidth"}

\* C23: a client keeps the one connection it opened when it mounted for its
\* whole lifetime: changing the colour, the line width or the eraser width
\* does not disconnect and connect again, so no new replay follows it.
C23_SingleSession == \A c \in Clients : client[c].socket = 1

\* Every handler other than a change of colour, line width or eraser width
\* keeps the connection.
C23_OthersKeepSession ==
  [][\A c \in Clients :
       (Handled(c) /\ client'[c].lastEvent.name \notin SettingsChanges)
         => /\ client'[c].socket = client[c].socket
            /\ client'[c].received >= client[c].received]_vars

=============================================================================
